---------------------------- MODULE Spec2Model ----------------------------
(***************************************************************************)
(* A model of src/pio_audio.rs: an RP2040 program that synthesises a tone, *)
(* encodes it into 32-bit wire words, configures two PIO state machines    *)
(* (data + bit clock, word clock), starts them together and streams the    *)
(* sample table into the TX FIFO of the first state machine forever.       *)
(*                                                                         *)
(* 32-bit unsigned words are modelled as functions from bit index 0..31 to *)
(* {0,1} (bit 0 is the least significant bit), so that every shift loses   *)
(* exactly the bits a u32 shift loses.                                     *)
(***************************************************************************)
EXTENDS Integers, Sequences, FiniteSets, TLC

VARIABLES
    overflow_checks,  \* build profile: TRUE when arithmetic overflow checks are compiled in
    enc_pc,           \* position of the encoder functions under test
    sample,           \* the i32 argument of cast_to_u32_as_i32
    is_24bit,         \* the bool argument of cast_to_u32_as_i32
    num,              \* result of cast_to_u32_as_i32 / argument of bit_reverse
    rev_num,          \* result of bit_reverse
    gen_i,            \* loop index i of generate_sine_wave
    split_in,         \* the f32 argument of split_float!
    split_out,        \* the (whole, frac) pair split_float! returned
    pc,               \* position of main
    periph_taken,     \* pac::Peripherals::take() has succeeded
    pins_configured,  \* gpio 9, 10, 11 are routed to PIO0, gpio 25 is an output
    target_lrck_freq, \* the SampleFrequency variant selected
    lrck_freq,        \* word-clock frequency in Hz
    bck_freq,         \* bit-clock frequency in Hz
    bck_whole, bck_frac,    \* split_float!(bck_data_div)
    lrck_whole, lrck_frac,  \* split_float!(lrck_div)
    sm_program,       \* per state machine: the program installed
    sm_clkdiv,        \* per state machine: the <<int, frac>> of its clock divider
    samples,          \* the sample table
    sysclk_ready,     \* init_clocks_and_plls has succeeded
    sm_enabled,       \* per state machine: its SM_ENABLE bit
    tx0,              \* TX FIFO of state machine 0
    idx,              \* position of samples.iter() in the streaming loop
    sm_pc,            \* per state machine: index of its next instruction
    osr,              \* output shift register of state machine 0
    osr_count,        \* output shift counter of state machine 0
    osr_from_fifo,    \* the last refill of the output shift register came from tx0
    gpio,             \* level driven on pins 9 (data), 10 (bck), 11 (lrck)
    clk_phase,        \* per state machine: phase of its fractional clock divider, in 1/256 tick
    tick,             \* base-clock ticks since the dividers were restarted
    first_exec,       \* per state machine: tick of its first instruction (-1: none yet)
    first_edge,       \* per state machine: tick of the first change of one of its pins (-1: none yet)
    bck_count,        \* bit-clock rising edges since the last word-clock rising edge
    frame_len,        \* bit-clock periods in the last complete word-clock period (-1: none yet)
    pulled            \* number of words state machine 0 took from tx0, modulo the table length

encVars == <<enc_pc, sample, is_24bit, num, rev_num, gen_i, split_in, split_out>>

cfgVars == <<target_lrck_freq, lrck_freq, bck_freq, bck_whole, bck_frac,
             lrck_whole, lrck_frac>>

hwVars == <<periph_taken, pins_configured, sm_program, sm_clkdiv, sysclk_ready>>

pioVars == <<sm_pc, osr, osr_count, osr_from_fifo, gpio, tx0, pulled>>

clkVars == <<clk_phase, tick, first_exec, first_edge, bck_count, frame_len>>

mainVars == <<pc, cfgVars, hwVars, samples, sm_enabled, idx, pioVars, clkVars>>

vars == <<overflow_checks, encVars, mainVars>>

-----------------------------------------------------------------------------
(* Bounds of the model *)

\* low halves 0..MaxLow of the words given to bit_reverse
MaxLow == 7
\* samples -MaxSample..MaxSample (besides the amplitude limits) given to the encoder
MaxSample == 12
\* number of table entries the streaming loop cycles through (TABLE_SIZE in the source)
TableLen == 3
\* base-clock ticks that may pass between the divider restart and the enable write
MaxSyncGap == 3
\* base-clock ticks simulated after the divider restart
MaxTick == 700
\* split_float! is given the divisors of the frequencies 500 Hz * 1..MaxFreqStep
MaxFreqStep == 40

-----------------------------------------------------------------------------
(* Program constants *)

BASE_CLOCK == 125000000
TABLE_SIZE == 1920
AMPLITUDE == 7340031
FREQUENCY == 300
SAMPLE_RATE == 192000
\* the f32 nearest to the literal 3.141592653589732385
PI == [m |-> 13176795, e |-> -22]
BITSHIFT_ONE_BYTE == 8
LRCK_PIO_CYCLES_PER == 2
CK_PIO_CYCLES_PER == 4
\* depth of a TX FIFO that is not joined with its RX FIFO (the builder's default)
TX_FIFO_DEPTH == 4
\* pull_threshold(0) stands for a threshold of 32 bits
PULL_THRESHOLD == 32
I32_MAX == 2147483647

-----------------------------------------------------------------------------
(* u32 words as bit vectors *)

BitIdx == 0..31

RECURSIVE Pow2(_)
Pow2(n) == IF n = 0 THEN 1 ELSE 2 * Pow2(n - 1)

Zero32 == [i \in BitIdx |-> 0]

\* the u32 with high half hi and low half lo (both 0..65535)
U32(hi, lo) ==
    [i \in BitIdx |-> IF i < 16 THEN (lo \div Pow2(i)) % 2
                                ELSE (hi \div Pow2(i - 16)) % 2]

\* a | b
BitOr(a, b) == [i \in BitIdx |-> IF a[i] = 1 \/ b[i] = 1 THEN 1 ELSE 0]

\* a & b
BitAnd(a, b) == [i \in BitIdx |-> IF a[i] = 1 /\ b[i] = 1 THEN 1 ELSE 0]

\* w << n on a u32, 0 <= n <= 31: the bits shifted past bit 31 are lost
Shl(w, n) == [i \in BitIdx |-> IF i >= n THEN w[i - n] ELSE 0]

\* w >> n on a u32, 0 <= n <= 31
Shr(w, n) == [i \in BitIdx |-> IF i + n <= 31 THEN w[i + n] ELSE 0]

\* the exact bit reversal of a word: bit i of the result is bit 31-i of w
Mirror(w) == [i \in BitIdx |-> w[31 - i]]

-----------------------------------------------------------------------------
(* cast_to_u32_as_i32 *)

\* byte i of the two's-complement representation of the i32 n, as read through
\* the byte pointer on the little-endian target
ByteAt(n, i) == (n \div Pow2(8 * i)) % 256

\* the loop over the first byte_count bytes: temp |= (cur_byte as u32) << (8 * i)
\* the byte loop without the shift that puts byte i at bits 8i to 8i+7
RECURSIVE cast_loop_unshifted(_, _, _, _)
cast_loop_unshifted(n, temp, i, byte_count) ==
    IF i >= byte_count THEN temp
    ELSE cast_loop_unshifted(n, BitOr(temp, U32(0, ByteAt(n, i))), i + 1, byte_count)

RECURSIVE cast_loop(_, _, _, _)
cast_loop(n, temp, i, byte_count) ==
    IF i >= byte_count THEN temp
    ELSE cast_loop(n,
                   BitOr(temp, Shl(U32(0, ByteAt(n, i)), BITSHIFT_ONE_BYTE * i)),
                   i + 1, byte_count)

\* a 24-bit mode that keeps only the three low bytes and the sign bit
cast_to_u32_as_i32_low24(n, is24) ==
    LET temp == cast_loop(n, Zero32, 0, IF is24 THEN 3 ELSE 4)
    IN  IF is24 /\ ByteAt(n, 3) \div 128 = 1
        THEN BitOr(temp, U32(32768, 0))
        ELSE temp

cast_to_u32_as_i32(n, is24) ==
    LET byte_count == IF is24 THEN 3 ELSE 4
        temp       == cast_loop(n, Zero32, 0, byte_count)
        cur_byte   == ByteAt(n, 3)
        msb_removed_byte == cur_byte % 128
        temp2      == BitOr(temp, Shl(U32(0, msb_removed_byte), 24))
    IN  IF is24
        THEN IF cur_byte \div 128 = 1
             THEN BitOr(temp2, U32(32768, 0))
             ELSE temp2
        ELSE temp

-----------------------------------------------------------------------------
(* bit_reverse *)

\* the while loop without `bits -= 1`
RECURSIVE bit_reverse_loop_uncounted(_, _, _)
bit_reverse_loop_uncounted(n, rev, bits) ==
    IF n = Zero32 THEN [rev_num |-> rev, bits |-> bits]
    ELSE bit_reverse_loop_uncounted(Shr(n, 1),
                                    Shl(BitOr(rev, BitAnd(n, U32(0, 1))), 1),
                                    bits)

\* the while loop: returns the accumulator and the counter `bits` at loop exit
RECURSIVE bit_reverse_loop(_, _, _)
bit_reverse_loop(n, rev, bits) ==
    IF n = Zero32 THEN [rev_num |-> rev, bits |-> bits]
    ELSE bit_reverse_loop(Shr(n, 1),
                          Shl(BitOr(rev, BitAnd(n, U32(0, 1))), 1),
                          bits - 1)

\* the final `rev_num <<= bits` is a shift by a count outside 0..31 exactly when
\* the loop ran 32 times: with overflow checks this panics
bit_reverse_overflows(n) == bit_reverse_loop(n, Zero32, 31).bits \notin 0..31

\* the value returned when the final shift does not panic: without overflow
\* checks the shift count is masked to its low five bits
bit_reverse(n) ==
    LET r == bit_reverse_loop(n, Zero32, 31)
    IN  Shl(r.rev_num, r.bits % 32)

-----------------------------------------------------------------------------
(* f32 arithmetic (IEEE 754 binary32, round to nearest even) on the          *)
(* non-negative values the program computes.  A value is [m, e], standing    *)
(* for m * 2^e, with m = 0 or 2^23 <= m < 2^24.  Every intermediate integer  *)
(* stays below 2^31.                                                         *)

F32Zero == [m |-> 0, e |-> 0]

RECURSIVE BitLen(_)
BitLen(k) == IF k = 0 THEN 0 ELSE 1 + BitLen(k \div 2)

\* k * 2^e rounded to 24 significant bits; sticky says that non-zero bits below
\* k * 2^e were already dropped
F32Round(k, e, sticky) ==
    IF k = 0 THEN F32Zero
    ELSE LET len == BitLen(k) IN
         IF len <= 24
         THEN [m |-> k * Pow2(24 - len), e |-> e - (24 - len)]
         ELSE LET s    == len - 24
                  q    == k \div Pow2(s)
                  rem  == k % Pow2(s)
                  half == Pow2(s - 1)
                  up   == rem > half \/ (rem = half /\ (sticky \/ q % 2 = 1))
                  mm   == IF up THEN q + 1 ELSE q
              IN  IF mm = Pow2(24) THEN [m |-> Pow2(23), e |-> e + s + 1]
                                   ELSE [m |-> mm, e |-> e + s]

\* an integer literal or `k as f32`, 0 <= k < 2^31
F32FromInt(k) == F32Round(k, 0, FALSE)

\* x * y: the 48-bit product of the mantissas in two 24-bit halves, then rounded
F32Mul(x, y) ==
    IF x.m = 0 \/ y.m = 0 THEN F32Zero
    ELSE LET a1 == x.m \div 4096   a0 == x.m % 4096
             b1 == y.m \div 4096   b0 == y.m % 4096
             mid == a1 * b0 + a0 * b1
             t   == a0 * b0 + (mid % 4096) * 4096
             lo  == t % Pow2(24)
             hi  == a1 * b1 + mid \div 4096 + t \div Pow2(24)
             e0  == x.e + y.e
             big == hi >= Pow2(23)
             q    == IF big THEN hi ELSE 2 * hi + lo \div Pow2(23)
             rem  == IF big THEN lo ELSE lo % Pow2(23)
             half == IF big THEN Pow2(23) ELSE Pow2(22)
             ee   == IF big THEN e0 + 24 ELSE e0 + 23
             up   == rem > half \/ (rem = half /\ q % 2 = 1)
             mm   == IF up THEN q + 1 ELSE q
         IN  IF mm = Pow2(24) THEN [m |-> Pow2(23), e |-> ee + 1]
                              ELSE [m |-> mm, e |-> ee]

\* long division of the mantissas: quotient bits until 24 are significant
RECURSIVE F32DivLoop(_, _, _, _)
F32DivLoop(q, r, d, n) ==
    IF q >= Pow2(23) THEN [q |-> q, r |-> r, n |-> n]
    ELSE F32DivLoop(2 * q + (IF 2 * r >= d THEN 1 ELSE 0), (2 * r) % d, d, n + 1)

\* x / y, y # 0
F32Div(x, y) ==
    IF x.m = 0 THEN F32Zero
    ELSE LET l  == F32DivLoop(x.m \div y.m, x.m % y.m, y.m, 0)
             up == 2 * l.r > y.m \/ (2 * l.r = y.m /\ l.q % 2 = 1)
             mm == IF up THEN l.q + 1 ELSE l.q
             ee == x.e - y.e - l.n
         IN  IF mm = Pow2(24) THEN [m |-> Pow2(23), e |-> ee + 1]
                              ELSE [m |-> mm, e |-> ee]

\* x + y for non-negative x, y: the smaller operand is aligned keeping three
\* guard bits and a sticky bit
F32Add(x, y) ==
    IF x.m = 0 THEN y
    ELSE IF y.m = 0 THEN x
    ELSE LET b == IF x.e >= y.e THEN x ELSE y
             s == IF x.e >= y.e THEN y ELSE x
             d == b.e - s.e
         IN  IF d > 26 THEN b
             ELSE F32Round(8 * b.m + (8 * s.m) \div Pow2(d), b.e - 3,
                           (8 * s.m) % Pow2(d) # 0)

\* x - k for an integer 0 <= k <= x: exact whenever x < 2^24
F32SubInt(x, k) ==
    IF x.e <= 0 THEN F32Round(x.m - k * Pow2(-x.e), x.e, FALSE)
    ELSE F32Round(x.m * Pow2(x.e) - k, 0, FALSE)

\* `x as <integer type>` for non-negative x: truncation toward zero, saturating
\* at the type's maximum
F32ToInt(x, max) ==
    IF x.m = 0 THEN 0
    ELSE IF x.e >= 0
         THEN IF x.e > 7 \/ x.m * Pow2(x.e) > max THEN max ELSE x.m * Pow2(x.e)
         ELSE IF -x.e >= 24 THEN 0
         ELSE IF x.m \div Pow2(-x.e) > max THEN max ELSE x.m \div Pow2(-x.e)

-----------------------------------------------------------------------------
(* split_float! *)

\* split_float! with the fraction scaled by 255.0 instead of 256.0
split_float_255(value) ==
    LET whole == F32ToInt(value, 65535)
        frac  == F32ToInt(F32Mul(F32SubInt(value, whole), F32FromInt(255)), 255)
    IN  <<whole, frac>>

\* (whole, frac) of an f32: `value as u16`, then ((value - whole) * 256.0) as u8
split_float(value) ==
    LET whole == F32ToInt(value, 65535)
        frac  == F32ToInt(F32Mul(F32SubInt(value, whole), F32FromInt(256)), 255)
    IN  <<whole, frac>>

-----------------------------------------------------------------------------
(* generate_sine_wave *)

\* omega = 2.0 * PI * FREQUENCY / SAMPLE_RATE
omega ==
    F32Div(F32Mul(F32Mul(F32FromInt(2), PI), F32FromInt(FREQUENCY)),
           F32FromInt(SAMPLE_RATE))

\* the i32 `sample` of loop index i
sine_sample(i) ==
    LET angle       == F32Mul(omega, F32FromInt(i))
        out_temp0   == F32Zero
        angle_temp0 == F32Zero
        out_temp1   == F32Add(out_temp0, angle)
        angle_temp  == F32Mul(F32Mul(angle_temp0, angle), angle)
        out_temp2   == F32Add(out_temp1, F32Div(angle_temp, F32FromInt(6)))
        out_temp3   == F32Add(out_temp2,
                              F32Div(F32Mul(F32Mul(angle_temp, angle), angle),
                                     F32FromInt(120)))
    IN  F32ToInt(F32Mul(F32FromInt(AMPLITUDE), out_temp3), I32_MAX)

TableIdx == 0..(TableLen - 1)

\* some entry makes bit_reverse's final shift overflow
generate_sine_wave_overflows ==
    \E i \in TableIdx : bit_reverse_overflows(cast_to_u32_as_i32(sine_sample(i), TRUE))

\* samples[i] = bit_reverse(cast_to_u32_as_i32(sample, true))
generate_sine_wave ==
    [i \in TableIdx |-> bit_reverse(cast_to_u32_as_i32(sine_sample(i), TRUE))]

-----------------------------------------------------------------------------
(* The PIO programs and the state machines that run them *)

SMs == {0, 1}

\* gpio numbers of i2s_data, i2s_bck, i2s_lrck
Pins == {9, 10, 11}

\* program_0 with the bit clock raised by its first instruction
program_0_side1_first ==
    << [op |-> "pull_ifempty_noblock", side |-> 1, target |-> 0],
       [op |-> "nop",                  side |-> 1, target |-> 0],
       [op |-> "out_pins_1",           side |-> 0, target |-> 0],
       [op |-> "jmp",                  side |-> 0, target |-> 0] >>

program_0 ==
    << [op |-> "pull_ifempty_noblock", side |-> 0, target |-> 0],
       [op |-> "nop",                  side |-> 0, target |-> 0],
       [op |-> "out_pins_1",           side |-> 1, target |-> 0],
       [op |-> "jmp",                  side |-> 1, target |-> 0] >>

program_1 ==
    << [op |-> "nop", side |-> 1, target |-> 0],
       [op |-> "jmp", side |-> 0, target |-> 0] >>

\* the clock divider of a state machine after the PIO block's reset
CLKDIV_RESET == <<1, 0>>

\* a scratch register X holding ones
ScratchXOnes == U32(65535, 65535)

\* scratch register X of state machine 0: zero after reset, never written
ScratchX == Zero32

\* side_set_pin_base of each state machine
SideSetBase(k) == IF k = 0 THEN 10 ELSE 11

\* the pins each state machine drives: out_pins and side-set pins
PinsOf(k) == IF k = 0 THEN {9, 10} ELSE {11}

CurInstr(k) ==
    LET prog == IF sm_program[k] = "program_0" THEN program_0 ELSE program_1
    IN  prog[sm_pc[k] + 1]

\* the next instruction index when the pull blocks on an empty FIFO
NextPcBlockingPull(k) ==
    LET prog == IF sm_program[k] = "program_0" THEN program_0 ELSE program_1
    IN  IF CurInstr(k).op = "jmp" THEN CurInstr(k).target
        ELSE IF CurInstr(k).op = "pull_ifempty_noblock"
                /\ osr_count >= PULL_THRESHOLD /\ tx0 = <<>>
             THEN sm_pc[k]
             ELSE (sm_pc[k] + 1) % Len(prog)

NextPc(k) ==
    LET prog == IF sm_program[k] = "program_0" THEN program_0 ELSE program_1
    IN  IF CurInstr(k).op = "jmp" THEN CurInstr(k).target
        ELSE (sm_pc[k] + 1) % Len(prog)

\* the state machines of F each execute one instruction in the same cycle
PioStep(F) ==
    /\ sm_pc' = [k \in SMs |-> IF k \in F THEN NextPc(k) ELSE sm_pc[k]]
    /\ gpio' = [p \in Pins |->
                  IF \E k \in F : SideSetBase(k) = p
                  THEN CurInstr(CHOOSE k \in F : SideSetBase(k) = p).side
                  ELSE IF 0 \in F /\ p = 9 /\ CurInstr(0).op = "out_pins_1"
                       THEN osr[31]
                       ELSE gpio[p]]
    /\ IF 0 \in F /\ CurInstr(0).op = "pull_ifempty_noblock"
                  /\ osr_count >= PULL_THRESHOLD
       THEN \* the OSR is empty: refill it from the FIFO, or from X when the FIFO is empty
            /\ osr_count' = 0
            /\ IF tx0 # <<>>
               THEN /\ osr' = Head(tx0)
                    /\ osr_from_fifo' = TRUE
                    /\ tx0' = Tail(tx0)
                    /\ pulled' = (pulled + 1) % TableLen
               ELSE /\ osr' = ScratchX
                    /\ osr_from_fifo' = FALSE
                    /\ UNCHANGED <<tx0, pulled>>
       ELSE IF 0 \in F /\ CurInstr(0).op = "out_pins_1"
       THEN \* shift one bit out of the OSR, most significant bit first
            /\ osr' = Shl(osr, 1)
            /\ osr_count' = IF osr_count < 32 THEN osr_count + 1 ELSE 32
            /\ UNCHANGED <<osr_from_fifo, tx0, pulled>>
       ELSE UNCHANGED <<osr, osr_count, osr_from_fifo, tx0, pulled>>

\* state machine 0 (program_0) executes its next instruction
SM0Step ==
    /\ sm_enabled[0]
    /\ PioStep({0})
    /\ UNCHANGED <<overflow_checks, encVars, pc, cfgVars, hwVars, samples,
                   sm_enabled, idx, clkVars>>

\* state machine 1 (program_1) executes its next instruction
SM1Step ==
    /\ sm_enabled[1]
    /\ PioStep({1})
    /\ UNCHANGED <<overflow_checks, encVars, pc, cfgVars, hwVars, samples,
                   sm_enabled, idx, clkVars>>

\* one base-clock tick of a divider of int + frac/256: it enables its state
\* machine in the ticks where the phase is below one tick
DividerFires(k) == clk_phase[k] < 256

DividerStep(k) ==
    IF DividerFires(k)
    THEN clk_phase[k] + (256 * sm_clkdiv[k][1] + sm_clkdiv[k][2]) - 256
    ELSE clk_phase[k] - 256

\* one base-clock tick after the dividers were restarted: the dividers run
\* freely, and each enabled state machine executes when its divider fires
Tick ==
    /\ pc \in {"start", "delay"}
    /\ tick < (IF pc = "start" THEN MaxSyncGap ELSE MaxTick)
    /\ LET F == {k \in SMs : sm_enabled[k] /\ DividerFires(k)} IN
        /\ PioStep(F)
        /\ first_exec' = [k \in SMs |->
              IF first_exec[k] = -1 /\ k \in F THEN tick ELSE first_exec[k]]
        /\ first_edge' = [k \in SMs |->
              IF first_edge[k] = -1 /\ \E p \in PinsOf(k) : gpio'[p] # gpio[p]
              THEN tick ELSE first_edge[k]]
        /\ LET lrck_rise == gpio[11] = 0 /\ gpio'[11] = 1
               bck_rise  == IF gpio[10] = 0 /\ gpio'[10] = 1 THEN 1 ELSE 0
           IN  /\ bck_count' = IF lrck_rise THEN bck_rise ELSE bck_count + bck_rise
               /\ frame_len' = IF lrck_rise /\ first_edge[1] # -1
                                THEN bck_count ELSE frame_len
    /\ clk_phase' = [k \in SMs |-> DividerStep(k)]
    /\ tick' = tick + 1
    /\ UNCHANGED <<overflow_checks, encVars, pc, cfgVars, hwVars, samples,
                   sm_enabled, idx>>

-----------------------------------------------------------------------------
(* main *)

SampleFrequency ==
    {"Freq32khz", "Freq44_1khz", "Freq48khz", "Freq96khz", "Freq192khz", "Freq384khz"}

\* the match on target_lrck_freq: (lrck_freq, bck_freq) in Hz
FreqTable(t) ==
    CASE t = "Freq32khz"   -> <<32000, 1024000>>
      [] t = "Freq44_1khz" -> <<44100, 1411200>>
      [] t = "Freq48khz"   -> <<48000, 1536000>>
      [] t = "Freq96khz"   -> <<96000, 3072000>>
      [] t = "Freq192khz"  -> <<192000, 6144000>>
      [] t = "Freq384khz"  -> <<384000, 12288000>>

\* (BASE_CLOCK / cycles) / freq
clock_div(cycles, freq) ==
    F32Div(F32Div(F32FromInt(BASE_CLOCK), F32FromInt(cycles)), F32FromInt(freq))

\* let mut pac = pac::Peripherals::take().unwrap()
TakePeripherals ==
    /\ pc = "take"
    /\ periph_taken' = TRUE
    /\ pc' = "pins"
    /\ UNCHANGED <<overflow_checks, encVars, cfgVars, pins_configured, sm_program,
                   sm_clkdiv, sysclk_ready, samples, sm_enabled, idx, pioVars, clkVars>>

\* Sio, Pins, into_push_pull_output, into_function for gpio 9, 10, 11
ConfigurePins ==
    /\ pc = "pins"
    /\ pins_configured' = TRUE
    /\ pc' = "select"
    /\ UNCHANGED <<overflow_checks, encVars, cfgVars, periph_taken, sm_program,
                   sm_clkdiv, sysclk_ready, samples, sm_enabled, idx, pioVars, clkVars>>

\* PIO0.split, then the match that binds lrck_freq and bck_freq
SelectFrequency ==
    /\ pc = "select"
    /\ lrck_freq' = FreqTable(target_lrck_freq)[1]
    /\ bck_freq' = FreqTable(target_lrck_freq)[2]
    /\ pc' = "calc_div"
    /\ UNCHANGED <<overflow_checks, encVars, target_lrck_freq, bck_whole, bck_frac,
                   lrck_whole, lrck_frac, hwVars, samples, sm_enabled, idx,
                   pioVars, clkVars>>

\* let lrck_div = (BASE_CLOCK / LRCK_PIO_CYCLES_PER) / lrck_freq
lrck_div == clock_div(LRCK_PIO_CYCLES_PER, lrck_freq)

\* let bck_data_div = (BASE_CLOCK / CK_PIO_CYCLES_PER) / bck_freq
bck_data_div == clock_div(CK_PIO_CYCLES_PER, bck_freq)

\* lrck_div, bck_data_div and their split_float!
ComputeDivisors ==
    /\ pc = "calc_div"
    /\ bck_whole' = split_float(bck_data_div)[1]
    /\ bck_frac' = split_float(bck_data_div)[2]
    /\ lrck_whole' = split_float(lrck_div)[1]
    /\ lrck_frac' = split_float(lrck_div)[2]
    /\ pc' = "install0"
    /\ UNCHANGED <<overflow_checks, encVars, target_lrck_freq, lrck_freq, bck_freq,
                   hwVars, samples, sm_enabled, idx, pioVars, clkVars>>

\* pio.install(&program_0.program), PIOBuilder ... build(sm0), set_pindirs
InstallSm0 ==
    /\ pc = "install0"
    /\ sm_program' = [sm_program EXCEPT ![0] = "program_0"]
    /\ sm_clkdiv' = [sm_clkdiv EXCEPT ![0] = <<bck_whole, bck_frac>>]
    /\ pc' = "install1"
    /\ UNCHANGED <<overflow_checks, encVars, cfgVars, periph_taken, pins_configured,
                   sysclk_ready, samples, sm_enabled, idx, pioVars, clkVars>>

\* the build of sm1 without clock_divisor_fixed_point
InstallSm1NoDivisor ==
    /\ pc = "install1"
    /\ sm_program' = [sm_program EXCEPT ![1] = "program_1"]
    /\ pc' = "gen"
    /\ UNCHANGED <<overflow_checks, encVars, cfgVars, periph_taken, pins_configured,
                   sm_clkdiv, sysclk_ready, samples, sm_enabled, idx, pioVars, clkVars>>

\* pio.install(&program_1.program), PIOBuilder ... build(sm1), set_pindirs
InstallSm1 ==
    /\ pc = "install1"
    /\ sm_program' = [sm_program EXCEPT ![1] = "program_1"]
    /\ sm_clkdiv' = [sm_clkdiv EXCEPT ![1] = <<lrck_whole, lrck_frac>>]
    /\ pc' = "gen"
    /\ UNCHANGED <<overflow_checks, encVars, cfgVars, periph_taken, pins_configured,
                   sysclk_ready, samples, sm_enabled, idx, pioVars, clkVars>>

\* let mut samples = [0; TABLE_SIZE]; generate_sine_wave(&mut samples); the led
GenerateSineWave ==
    /\ pc = "gen"
    /\ IF overflow_checks /\ generate_sine_wave_overflows
       THEN /\ pc' = "halt"
            /\ UNCHANGED samples
       ELSE /\ pc' = "clocks"
            /\ samples' = generate_sine_wave
    /\ UNCHANGED <<overflow_checks, encVars, cfgVars, hwVars, sm_enabled, idx,
                   pioVars, clkVars>>

\* Watchdog::new, init_clocks_and_plls(...).ok().unwrap(), Timer::new
InitClocks ==
    /\ pc = "clocks"
    /\ sysclk_ready' = TRUE
    /\ pc' = "sync"
    /\ UNCHANGED <<overflow_checks, encVars, cfgVars, periph_taken, pins_configured,
                   sm_program, sm_clkdiv, samples, sm_enabled, idx, pioVars, clkVars>>

\* sm0.with(sm1).sync(): one write restarts both clock dividers at phase 0
Sync ==
    /\ pc = "sync"
    /\ clk_phase' = [k \in SMs |-> 0]
    /\ pc' = "start"
    /\ UNCHANGED <<overflow_checks, encVars, cfgVars, hwVars, samples, sm_enabled,
                   idx, pioVars, tick, first_exec, first_edge, bck_count,
                   frame_len>>

\* a start that enables state machine 0 alone
StartOneByOne ==
    /\ pc = "start"
    /\ sm_enabled' = [sm_enabled EXCEPT ![0] = TRUE]
    /\ pc' = "delay"
    /\ UNCHANGED <<overflow_checks, encVars, cfgVars, hwVars, samples, idx,
                   pioVars, clkVars>>

\* .start(): one write sets the SM_ENABLE bits of both state machines
Start ==
    /\ pc = "start"
    /\ sm_enabled' = [k \in SMs |-> TRUE]
    /\ pc' = "delay"
    /\ UNCHANGED <<overflow_checks, encVars, cfgVars, hwVars, samples, idx,
                   pioVars, clkVars>>

\* timer.delay_ms(500) returns
Delay ==
    /\ pc = "delay"
    /\ pc' = "poll"
    /\ UNCHANGED <<overflow_checks, encVars, cfgVars, hwVars, samples, sm_enabled,
                   idx, pioVars, clkVars>>

\* tx0.is_full()
is_full == Len(tx0) >= TX_FIFO_DEPTH

\* a loop that writes without waiting for space
PollIgnoringFull ==
    /\ pc = "poll"
    /\ pc' = "write"
    /\ UNCHANGED <<overflow_checks, encVars, cfgVars, hwVars, samples, sm_enabled,
                   idx, pioVars, clkVars>>

\* while tx0.is_full() {}: one evaluation of the loop condition
Poll ==
    /\ pc = "poll"
    /\ pc' = IF is_full THEN "poll" ELSE "write"
    /\ UNCHANGED <<overflow_checks, encVars, cfgVars, hwVars, samples, sm_enabled,
                   idx, pioVars, clkVars>>

\* an iterator restart that skips entry 0
NextIdxSkipFirst(i) == IF i + 1 >= TableLen THEN 1 ELSE i + 1

\* the position of samples.iter() after entry i; the outer loop restarts it
NextIdx(i) == IF i + 1 >= TableLen THEN 0 ELSE i + 1

\* tx0.write(*sample): a write to a full FIFO is refused and the word is lost
Write ==
    /\ pc = "write"
    /\ tx0' = IF is_full THEN tx0 ELSE Append(tx0, samples[idx])
    /\ idx' = NextIdx(idx)
    /\ pc' = "poll"
    /\ UNCHANGED <<overflow_checks, encVars, cfgVars, hwVars, samples, sm_enabled,
                   sm_pc, osr, osr_count, osr_from_fifo, gpio, pulled, clkVars>>

\* the divisor locals before they are computed
DivReset ==
    /\ bck_whole = 0
    /\ bck_frac = 0
    /\ lrck_whole = 0
    /\ lrck_frac = 0

\* the PIO block, the clocks and the streaming loop before main touches them
PioReset ==
    /\ sm_program = [k \in SMs |-> "none"]
    /\ sm_clkdiv = [k \in SMs |-> CLKDIV_RESET]
    /\ samples = [i \in TableIdx |-> Zero32]
    /\ sysclk_ready = FALSE
    /\ sm_enabled = [k \in SMs |-> FALSE]
    /\ tx0 = <<>>
    /\ idx = 0
    /\ sm_pc = [k \in SMs |-> 0]
    /\ osr = Zero32
    /\ osr_count = PULL_THRESHOLD
    /\ osr_from_fifo = FALSE
    /\ gpio = [p \in Pins |-> 0]
    /\ clk_phase = [k \in SMs |-> 0]
    /\ tick = 0
    /\ first_exec = [k \in SMs |-> -1]
    /\ first_edge = [k \in SMs |-> -1]
    /\ bck_count = 0
    /\ frame_len = -1
    /\ pulled = 0

\* the state of every variable of main before main runs
MainReset ==
    /\ periph_taken = FALSE
    /\ pins_configured = FALSE
    /\ lrck_freq = 0
    /\ bck_freq = 0
    /\ DivReset
    /\ PioReset

\* the encoder functions are not under test
EncIdle ==
    /\ enc_pc = "idle"
    /\ sample = 0
    /\ is_24bit = TRUE
    /\ num = Zero32
    /\ rev_num = Zero32
    /\ gen_i = 0
    /\ split_in = F32Zero
    /\ split_out = <<0, 0>>

\* main is not running
MainOff ==
    /\ pc = "off"
    /\ target_lrck_freq = "Freq192khz"
    /\ MainReset

\* entry of main: target_lrck_freq is hardcoded to Freq192khz
Init ==
    /\ overflow_checks \in BOOLEAN
    /\ EncIdle
    /\ pc = "take"
    /\ target_lrck_freq = "Freq192khz"
    /\ MainReset

Startup ==
    \/ TakePeripherals
    \/ ConfigurePins
    \/ SelectFrequency
    \/ ComputeDivisors
    \/ InstallSm0
    \/ InstallSm1
    \/ GenerateSineWave
    \/ InitClocks
    \/ Sync
    \/ Start

Next ==
    \/ Startup
    \/ Delay
    \/ Poll
    \/ Write
    \/ SM0Step
    \/ SM1Step

\* main and the two state machines, interleaved
Spec == Init /\ [][Next]_vars

\* after the start, main keeps running (the delay returns, the loop keeps
\* polling and writing) and state machine 0 keeps executing
FairSpec == Spec /\ WF_vars(Delay \/ Poll \/ Write) /\ WF_vars(SM0Step)

NextClock == Startup \/ Tick

\* startup and the first MaxTick base-clock ticks after the divider restart,
\* all within the settle delay
SpecClock == Init /\ [][NextClock]_vars

\* main with any variant of SampleFrequency selected
InitDiv ==
    /\ overflow_checks \in BOOLEAN
    /\ EncIdle
    /\ MainReset
    /\ pc = "take"
    /\ target_lrck_freq \in SampleFrequency

NextDiv == Startup

\* the startup of main over the variant table
SpecDiv == InitDiv /\ [][NextDiv]_vars

-----------------------------------------------------------------------------
(* The encoder functions as a state machine over bounded inputs *)

RevInputs ==
    {U32(h, l) : h \in {0, 1, 16384, 32768, 32769, 65535}, l \in 0..MaxLow}
    \cup {Shl(U32(0, 1), k) : k \in BitIdx}

SampleInputs ==
    (-MaxSample..MaxSample)
    \cup {AMPLITUDE, -AMPLITUDE, AMPLITUDE - 1, 1 - AMPLITUDE}
    \cup {I32_MAX, -I32_MAX - 1, -I32_MAX, 8388608, -8388608, 16777216, -16777216,
          16909060, -16909060}

\* num = cast_to_u32_as_i32(sample, is_24bit)
CastStep ==
    /\ enc_pc = "input"
    /\ num' = cast_to_u32_as_i32(sample, is_24bit)
    /\ enc_pc' = "cast"
    /\ UNCHANGED <<overflow_checks, sample, is_24bit, rev_num, gen_i, split_in,
                   split_out, mainVars>>

\* rev_num = bit_reverse(num), or the panic of the checked final shift
ReverseStep ==
    /\ enc_pc = "cast"
    /\ IF overflow_checks /\ bit_reverse_overflows(num)
       THEN /\ enc_pc' = "panic"
            /\ UNCHANGED rev_num
       ELSE /\ enc_pc' = "wire"
            /\ rev_num' = bit_reverse(num)
    /\ UNCHANGED <<overflow_checks, sample, is_24bit, num, gen_i, split_in,
                   split_out, mainVars>>

InitRev ==
    /\ overflow_checks \in BOOLEAN
    /\ enc_pc = "cast"
    /\ sample = 0
    /\ is_24bit = TRUE
    /\ num \in RevInputs
    /\ rev_num = Zero32
    /\ gen_i = 0
    /\ split_in = F32Zero
    /\ split_out = <<0, 0>>
    /\ MainOff

InitEnc ==
    /\ overflow_checks \in BOOLEAN
    /\ enc_pc = "input"
    /\ sample \in SampleInputs
    /\ is_24bit \in BOOLEAN
    /\ num = Zero32
    /\ rev_num = Zero32
    /\ gen_i = 0
    /\ split_in = F32Zero
    /\ split_out = <<0, 0>>
    /\ MainOff

NextRev == ReverseStep

NextEnc == CastStep \/ ReverseStep

\* bit_reverse applied to bounded 32-bit inputs
SpecRev == InitRev /\ [][NextRev]_vars

\* bit_reverse(cast_to_u32_as_i32(sample, is_24bit)) applied to bounded samples
SpecEnc == InitEnc /\ [][NextEnc]_vars

-----------------------------------------------------------------------------
(* The loop of generate_sine_wave over the whole table *)

\* one iteration of `for i in 0..TABLE_SIZE`: the sample of index i, its cast,
\* its bit reversal (or the panic of the checked final shift)
GenIteration ==
    /\ enc_pc = "gen"
    /\ gen_i < TABLE_SIZE
    /\ LET s == sine_sample(gen_i)
           w == cast_to_u32_as_i32(s, TRUE)
       IN  /\ sample' = s
           /\ num' = w
           /\ IF overflow_checks /\ bit_reverse_overflows(w)
              THEN /\ enc_pc' = "panic"
                   /\ UNCHANGED rev_num
              ELSE /\ enc_pc' = "gen"
                   /\ rev_num' = bit_reverse(w)
    /\ gen_i' = gen_i + 1
    /\ UNCHANGED <<overflow_checks, is_24bit, split_in, split_out, mainVars>>

InitGen ==
    /\ overflow_checks \in BOOLEAN
    /\ enc_pc = "gen"
    /\ sample = 0
    /\ is_24bit = TRUE
    /\ num = Zero32
    /\ rev_num = Zero32
    /\ gen_i = 0
    /\ split_in = F32Zero
    /\ split_out = <<0, 0>>
    /\ MainOff

NextGen == GenIteration

\* generate_sine_wave with the configured constants, entry by entry
SpecGen == InitGen /\ [][NextGen]_vars

-----------------------------------------------------------------------------
(* split_float! applied to bounded f32 arguments *)

\* frequencies whose divisors (BASE_CLOCK / cycles) / freq serve as arguments:
\* those of the variant table, multiples of 500 Hz, and some around the ends of
\* the 16-bit range
SplitFreqs ==
    {FreqTable(t)[1] : t \in SampleFrequency}
    \cup {FreqTable(t)[2] : t \in SampleFrequency}
    \cup {500 * k : k \in 1..MaxFreqStep}
    \cup {900, 953, 954, 20000000, 31250000, 40000000, 62500000}

SplitInputs ==
    {clock_div(c, f) : c \in {LRCK_PIO_CYCLES_PER, CK_PIO_CYCLES_PER}, f \in SplitFreqs}

\* split_out = split_float!(split_in): the macro has a single outcome, the pair
SplitFloatStep ==
    /\ enc_pc = "split_input"
    /\ split_out' = split_float(split_in)
    /\ enc_pc' = "split_done"
    /\ UNCHANGED <<overflow_checks, sample, is_24bit, num, rev_num, gen_i, split_in,
                   mainVars>>

InitSplit ==
    /\ overflow_checks \in BOOLEAN
    /\ enc_pc = "split_input"
    /\ sample = 0
    /\ is_24bit = TRUE
    /\ num = Zero32
    /\ rev_num = Zero32
    /\ gen_i = 0
    /\ split_in \in SplitInputs
    /\ split_out = <<0, 0>>
    /\ MainOff

NextSplit == SplitFloatStep

\* split_float! applied to bounded f32 arguments
SpecSplit == InitSplit /\ [][NextSplit]_vars

-----------------------------------------------------------------------------
(* Claims about the encoder functions *)

\* the i32 whose two's-complement bit pattern is w (the inverse of
\* cast_to_u32_as_i32's byte reassembly)
RECURSIVE LowValue(_, _)
LowValue(w, i) == IF i < 0 THEN 0 ELSE w[i] * Pow2(i) + LowValue(w, i - 1)

ToI32(w) == IF w[31] = 1 THEN (LowValue(w, 30) - 2147483647) - 1 ELSE LowValue(w, 30)

\* C1: for every 32-bit input, bit_reverse completes without a panic (its final
\* shift count stays within 0..31) and returns the word whose bit i is bit 31-i of
\* the input; 0x80000000 maps to 1.
C1_BitReverseTotal ==
    /\ enc_pc # "panic"
    /\ enc_pc = "wire" => rev_num = Mirror(num)

\* C2: for fixed is_24bit and every sample within the amplitude ceiling, negative
\* ones included, the wire word is produced, no other sample has the same wire
\* word, and reversing its bits and reading the pattern as an i32 gives the sample back.
C2_EncodeBijective ==
    /\ enc_pc # "panic"
    /\ enc_pc = "wire" =>
        /\ ToI32(Mirror(rev_num)) = sample
        /\ \A t \in SampleInputs :
              bit_reverse(cast_to_u32_as_i32(t, is_24bit)) = rev_num => t = sample

-----------------------------------------------------------------------------
(* Claims about main and the state machines *)

InLoop == pc \in {"poll", "write"}

Installed(k) == sm_program[k] # "none"

DivisorConfigured(k) == sm_clkdiv[k] # CLKDIV_RESET

Started == sm_enabled[0] \/ sm_enabled[1]

\* C3: the two state machines are started by one operation, after both are
\* configured: in every state both are stopped or both are running, and a running
\* state machine has its program installed and its computed divisor configured.
C3_JointStart ==
    /\ sm_enabled[0] = sm_enabled[1]
    /\ Started => /\ sm_program = [k \in SMs |-> IF k = 0 THEN "program_0" ELSE "program_1"]
                  /\ sm_clkdiv[0] = <<bck_whole, bck_frac>>
                  /\ sm_clkdiv[1] = <<lrck_whole, lrck_frac>>

C3_BothRunning == pc = "delay" /\ sm_enabled[0] /\ sm_enabled[1]

\* C4 as stated: the first output transition of Program A and the first output
\* transition of Program B occur in the same base-clock tick.
C4_SameTick == first_edge[0] = first_edge[1]

\* C4, amended: Program B's first transition (word clock rising) occurs in the
\* tick of its first instruction; Program A's first transition (bit clock rising)
\* occurs at its third instruction, at least 2 * bck_whole ticks after its first
\* instruction, the data line staying low; the two first transitions are not in
\* the same tick.
C4_FirstTransitions ==
    /\ \A k \in SMs : first_edge[k] # -1 => first_exec[k] # -1
    /\ first_exec[1] # -1 => first_edge[1] = first_exec[1]
    /\ first_edge[0] # -1 => first_edge[0] >= first_exec[0] + 2 * sm_clkdiv[0][1]
    /\ gpio[9] = 0
    /\ first_edge[0] # -1 /\ first_edge[1] # -1 => first_edge[0] # first_edge[1]

C4_BothTransitioned == first_edge[0] # -1 /\ first_edge[1] # -1

\* C5: the loop writes only when the queue is not full, the occupancy never
\* exceeds the capacity, and the queue always holds, in order, the table entries
\* that follow the last one Program A took, up to the loop's position: no word is
\* dropped, overwritten or reordered.
C5_Backpressure ==
    /\ Len(tx0) <= TX_FIFO_DEPTH
    /\ pc = "write" => ~is_full
    /\ \A j \in 1..Len(tx0) : tx0[j] = samples[(pulled + j - 1) % TableLen]
    /\ idx = (pulled + Len(tx0)) % TableLen

C5_FullQueuePolled == pc = "poll" /\ is_full /\ pulled = TableLen - 1

\* C6 as stated: peripheral and system-clock acquisition, then pin configuration,
\* then installation of both programs, then divisor configuration, then the joint
\* start, then the settle delay, then the streaming loop.
C6_SpecOrder ==
    /\ pins_configured => periph_taken /\ sysclk_ready
    /\ Installed(0) \/ Installed(1) => pins_configured
    /\ DivisorConfigured(0) \/ DivisorConfigured(1) => Installed(0) /\ Installed(1)
    /\ Started => DivisorConfigured(0) /\ DivisorConfigured(1)
    /\ InLoop => Started

\* C6, amended: peripheral acquisition, then pin configuration, then divisor
\* computation, then installation of Program A together with its divisor, then
\* installation of Program B together with its divisor, then the sample table,
\* then system-clock acquisition, then the joint start, then the settle delay,
\* then the streaming loop.
C6_StartupOrder ==
    /\ pins_configured => periph_taken
    /\ Installed(0) => pins_configured /\ sm_clkdiv[0] = <<bck_whole, bck_frac>>
    /\ DivisorConfigured(0) => Installed(0)
    /\ Installed(1) => Installed(0) /\ DivisorConfigured(0) /\ DivisorConfigured(1)
    /\ DivisorConfigured(1) => Installed(1) /\ sm_clkdiv[1] = <<lrck_whole, lrck_frac>>
    /\ sysclk_ready => Installed(1) /\ samples = generate_sine_wave
    /\ Started => sysclk_ready /\ sm_enabled[0] /\ sm_enabled[1]
    /\ pc = "delay" => Started
    /\ InLoop => Started

C6_LoopEntered == pc = "write" /\ Started /\ sysclk_ready

\* the loop has just written table entry i: it is the newest word of the queue
\* and the iterator stands at the entry after it
JustWritten(i) ==
    /\ pc = "poll"
    /\ idx = (i + 1) % TableLen
    /\ tx0 # <<>>
    /\ tx0[Len(tx0)] = samples[i]

\* C7: once entered, the streaming loop is never left; from then on every table
\* index is written to the queue again and again (every wait on a full queue
\* ends); the index written after the last one is 0.
C7_StreamsForever ==
    /\ [][InLoop => InLoop']_vars
    /\ \A i \in TableIdx : [](InLoop => <>JustWritten(i))
    /\ [][idx = TableLen - 1 /\ idx' # idx => idx' = 0]_vars

C7_WaitEnded ==
    pc = "write" /\ idx = TableLen - 1 /\ Len(tx0) = TX_FIFO_DEPTH - 1 /\ pulled # 0

\* the f32 x = m * 2^e (2^23 <= m < 2^24) has an integer part in 1..65535,
\* i.e. 1 <= x < 65536
InU16Range(x) == x.m # 0 /\ x.e \in -23..-8

RECURSIVE ScaleDiv(_, _, _, _)
ScaleDiv(q, r, d, n) ==
    IF n = 0 THEN [q |-> q, r |-> r]
    ELSE ScaleDiv(2 * q + (IF 2 * r >= d THEN 1 ELSE 0), (2 * r) % d, d, n - 1)

\* |whole + frac/256 - a/freq| < 1/256 with a = BASE_CLOCK / cycles, exactly:
\* with a = q*freq + r and 256*r = t*freq + s, the difference times 256*freq is
\* k*freq - s for k = 256*(whole - q) + frac - t, and 0 <= s < freq
WithinResolution(whole, frac, cycles, freq) ==
    LET a == BASE_CLOCK \div cycles
        t == ScaleDiv(0, a % freq, freq, 8)
        k == 256 * (whole - a \div freq) + frac - t.q
    IN  k = 0 \/ (k = 1 /\ t.r > 0)

\* C9: for each of the six variants and both programs, the computed (whole,
\* frac) is within 1/256 of the exact divisor, whole in [0, 65536), frac in [0, 256).
C9_DivisorAccuracy ==
    (target_lrck_freq \in SampleFrequency
        /\ pc \notin {"take", "pins", "select", "calc_div"}) =>
        /\ WithinResolution(bck_whole, bck_frac, CK_PIO_CYCLES_PER, bck_freq)
        /\ WithinResolution(lrck_whole, lrck_frac, LRCK_PIO_CYCLES_PER, lrck_freq)
        /\ bck_whole \in 0..65535 /\ lrck_whole \in 0..65535
        /\ bck_frac \in 0..255 /\ lrck_frac \in 0..255

C9_Divisor44k1 ==
    /\ target_lrck_freq = "Freq44_1khz"
    /\ pc = "delay"
    /\ <<lrck_whole, lrck_frac>> = <<1417, 59>>
    /\ <<bck_whole, bck_frac>> = <<22, 36>>

\* C10: every entry of the variant table binds the word-clock frequency to a
\* bit-clock frequency of exactly 64 times it.
C10_Ratio64 ==
    (target_lrck_freq \in SampleFrequency /\ pc \notin {"take", "pins", "select"}) =>
        bck_freq = 64 * lrck_freq

\* C13: Program A takes a word from the queue only when all 32 bits of its
\* shift buffer have been shifted out, and it never stalls: whether the queue is
\* empty or not, each of its instructions advances it through a loop of exactly
\* 4 instruction cycles, the bit clock is low for the first two and high for the
\* last two, and exactly one bit (the buffer's top bit, at the third
\* instruction) is shifted onto the data line per iteration.
C13_NeverStalls ==
    [][/\ Len(tx0') < Len(tx0) => sm_pc[0] = 0 /\ osr_count = 32
       /\ SM0Step =>
            /\ sm_pc'[0] = (sm_pc[0] + 1) % 4
            /\ gpio'[10] = (IF sm_pc[0] \in {0, 1} THEN 0 ELSE 1)
            /\ sm_pc[0] = 2 => /\ gpio'[9] = osr[31]
                               /\ osr' = Shl(osr, 1)
                               /\ osr_count' = (IF osr_count < 32 THEN osr_count + 1 ELSE 32)
            /\ sm_pc[0] # 2 => /\ gpio'[9] = gpio[9]
                               /\ osr_count' <= osr_count
            /\ sm_pc[0] # 0 => tx0' = tx0 /\ osr_count' >= osr_count]_vars

\* Program A is in the middle of a word, past its shift instruction, with the
\* queue empty after table words were taken
C13_ShiftingOnEmptyQueue ==
    /\ sm_pc[0] = 3
    /\ tx0 = <<>>
    /\ osr_count \in 1..31
    /\ pulled # 0
    /\ gpio[10] = 1

\* index of the highest set bit of a word, -1 for the zero word
HighBit(w) ==
    IF w = Zero32 THEN -1
    ELSE CHOOSE i \in BitIdx : w[i] = 1 /\ \A j \in BitIdx : j > i => w[j] = 0

\* number of set bits of a word
PopCount(w) == Cardinality({i \in BitIdx : w[i] = 1})

\* C19: for every input x below 2^31 (bit 31 clear), bit_reverse keeps its
\* shift count within 0..31 (so it does not panic), loses no bit to its left
\* shifts, and returns the exact 32-bit bit reversal of x; the loop runs exactly
\* (index of the highest set bit + 1) times, 0 times for x = 0.
C19_ReverseBelowSignBit ==
    (enc_pc \in {"wire", "panic"} /\ pc = "off" /\ gen_i = 0 /\ num[31] = 0) =>
        /\ enc_pc = "wire"
        /\ bit_reverse_loop(num, Zero32, 31).bits \in 0..31
        /\ 31 - bit_reverse_loop(num, Zero32, 31).bits = HighBit(num) + 1
        /\ PopCount(rev_num) = PopCount(num)
        /\ rev_num = Mirror(num)

\* an input with bit 30 set and bit 31 clear has been reversed under overflow
\* checks: the loop ran 31 times and the final shift is by 0
C19_Reversed31Bits ==
    /\ enc_pc = "wire"
    /\ pc = "off"
    /\ overflow_checks
    /\ num[31] = 0
    /\ num[30] = 1
    /\ num[0] = 1
    /\ rev_num[1] = 1
    /\ rev_num[31] = 1

\* the table word state machine 0 took last
LastPulled == samples[(pulled + TableLen - 1) % TableLen]

\* C18: between the joint start and the first queue write (the whole settle
\* delay), and whenever Program A's shift buffer empties while the queue is
\* empty, Program A keeps toggling the bit clock and shifts out 32 filler bits,
\* all zero, before it looks at the queue again; no table word is emitted
\* partially or interrupted by filler bits (the buffer always holds the last
\* table word or the filler word, shifted by the number of bits already out,
\* and it is replaced only after all 32 bits are out).
C18_FillerWords ==
    /\ [](/\ osr_count \in 0..32
          /\ osr_from_fifo => osr = Shl(LastPulled, osr_count)
          /\ ~osr_from_fifo => osr = Zero32
          /\ pc = "delay" => ~osr_from_fifo /\ tx0 = <<>> /\ gpio[9] = 0)
    /\ [][/\ (osr_from_fifo' # osr_from_fifo \/ pulled' # pulled \/ osr_count' < osr_count)
              => osr_count = 32 /\ osr_count' = 0 /\ sm_pc[0] = 0
          /\ (SM0Step /\ ~osr_from_fifo /\ sm_pc[0] = 2)
              => gpio'[9] = 0 /\ gpio'[10] = 1 /\ osr_count' = osr_count + 1]_vars

\* Program A is shifting filler bits in the streaming loop, after it took table
\* words and found the queue empty
C18_FillerAfterTableWord ==
    /\ InLoop
    /\ ~osr_from_fifo
    /\ pulled # 0
    /\ osr_count \in 1..31
    /\ sm_pc[0] = 3
    /\ LastPulled # Zero32

\* the sample has been cast: `num` is cast_to_u32_as_i32(sample, is_24bit)
Cast == enc_pc \in {"cast", "wire", "panic"} /\ pc = "off" /\ gen_i = 0

Abs(n) == IF n < 0 THEN -n ELSE n

\* C12: for every sample within the amplitude ceiling, the 32-bit word before
\* bit reversal has the sample's sign at bit 31, the 24-bit magnitude in bits 30
\* to 7, and bits 6 to 0 equal to zero.
C12_SignMagnitudeLayout ==
    (Cast /\ sample <= AMPLITUDE /\ sample >= -AMPLITUDE) =>
        /\ num[31] = (IF sample < 0 THEN 1 ELSE 0)
        /\ LowValue(num, 30) \div 128 = Abs(sample)
        /\ \A i \in 0..6 : num[i] = 0

\* bit j (0..30) of the two's-complement representation of the i32 n
BitOf(n, j) == (n \div Pow2(j)) % 2

\* C15: in 24-bit mode, for every i32 input, cast_to_u32_as_i32 returns the word
\* whose bits 0 to 23 are the three low bytes of the input's two's-complement
\* representation (byte k at bits 8k to 8k+7), whose bits 24 to 30 are the low 7
\* bits of the fourth byte, and whose bit 31 is set exactly when the input is
\* negative.
C15_Layout24 ==
    (Cast /\ is_24bit) =>
        /\ \A k \in 0..2 : \A j \in 0..7 : num[8 * k + j] = BitOf(sample, 8 * k + j)
        /\ \A j \in 0..6 : num[24 + j] = BitOf(sample, 24 + j)
        /\ num[31] = 1 <=> sample < 0

\* a negative input with non-zero low bytes has been cast in 24-bit mode
C15_NegativeCast24 ==
    /\ enc_pc = "cast"
    /\ pc = "off"
    /\ is_24bit
    /\ sample < -256
    /\ num[31] = 1
    /\ num[8] = 0

\* C17: the is_24bit flag does not change the result: for every i32 input,
\* cast_to_u32_as_i32(num, true) equals cast_to_u32_as_i32(num, false), and both
\* equal the unchanged 32-bit two's-complement bit pattern of num.
C17_FlagIrrelevant ==
    Cast => /\ num = cast_to_u32_as_i32(sample, ~is_24bit)
            /\ ToI32(num) = sample

\* an input that uses bits 24 to 30 has been cast in 32-bit mode
C17_WideCast32 ==
    /\ enc_pc = "cast"
    /\ pc = "off"
    /\ ~is_24bit
    /\ sample > 16777216
    /\ num[24] = 1

-----------------------------------------------------------------------------
(* Claims about generate_sine_wave *)

\* an entry has been generated: `sample` is the sample of index gen_i - 1
Generated == enc_pc \in {"gen", "panic"} /\ gen_i > 0

\* C11: every entry of the table built by generate_sine_wave with the configured
\* constants is a sample whose magnitude does not exceed AMPLITUDE, and entry 0
\* is 0.
C11_WithinAmplitude ==
    Generated => /\ sample <= AMPLITUDE
                 /\ -sample <= AMPLITUDE
                 /\ gen_i = 1 => sample = 0

-----------------------------------------------------------------------------
(* Claims about the two clocks *)

\* C14: with the divisors of the 192 kHz variant, every word-clock period after
\* the joint start spans exactly one left+right frame of Program A's output,
\* 64 bit-clock periods.
C14_FrameIs64Bits == frame_len \in {-1, 64}

\* amplitude times angle + angle^3/6 + angle^5/120 at angle = omega * i, as an
\* integer (truncated; the claim is checked with a tolerance of 1 for rounding)
series_sample(i) ==
    LET angle  == F32Mul(omega, F32FromInt(i))
        angle3 == F32Mul(F32Mul(angle, angle), angle)
        angle5 == F32Mul(F32Mul(angle3, angle), angle)
        series == F32Add(F32Add(angle, F32Div(angle3, F32FromInt(6))),
                         F32Div(angle5, F32FromInt(120)))
    IN  F32ToInt(F32Mul(F32FromInt(AMPLITUDE), series), I32_MAX)

\* C16: for every table index i, the sample generated is amplitude times the
\* three-term series angle + angle^3/6 + angle^5/120 at angle = omega * i,
\* rounded to an integer: the cubic and quintic terms contribute whenever the
\* angle is non-zero.
C16_ThreeTermSeries ==
    Generated => Abs(sample - series_sample(gen_i - 1)) <= 1

=============================================================================
